---- MODULE Spec2Model ----
(***************************************************************************)
(* Model of the acquisition pipeline of taiwan-stock-monitor:              *)
(*   downloader_jp.py  get_tse_list / build_manifest / download_one / main *)
(*   downloader_hk.py  get_full_stock_list / download_stock_data / main    *)
(*   downloader_tw.py  get_full_stock_list / download_stock_data / main    *)
(* The specifications of the module:                                       *)
(*   Spec          the JP pipeline, run after run, on one data directory   *)
(*   LiveSpec      one run of the JP pipeline, with its progress           *)
(*   SpecResolver  the universe resolvers of HK and JP with their cache    *)
(*   SpecFetch     one call of a per-symbol fetcher, attempt by attempt    *)
(*   SpecSched     the pools and as_completed loops of the three mains     *)
(*   SpecUniverse  the list parsers of HK, JP and TW, and HK's symbols     *)
(***************************************************************************)
EXTENDS Integers, Sequences, FiniteSets, TLC

(* ---------------------------------------------------------------------- *)
(* Bounds of the model                                                     *)
(* ---------------------------------------------------------------------- *)
\* number of pipeline runs followed
MaxRuns == 2
\* downloader_jp.py: THREADS = 4 workers; the model's runs have a handful of
\* rows, so the pool is scaled down to this many workers
THREADS == 2
\* main line 168 flushes when count % 100 == 0; the model's runs have a
\* handful of rows, so the interval is scaled down to this many completions
CheckpointEvery == 2

(* ---------------------------------------------------------------------- *)
(* Program constants                                                       *)
(* ---------------------------------------------------------------------- *)
\* downloader_jp.py: DATA_EXPIRY_SECONDS = 3600
DATA_EXPIRY_SECONDS == 3600
\* downloader_jp.py: os.path.getsize(out_path) > 1000
MinBytes == 1000
\* downloader_jp.py: max_retries = 3 (download_one)
max_retries == 3
\* downloader_jp.py: zfill(4)
CodeWidth == 4

\* a path with no file behind it (os.path.exists is False)
NoFile == [exists |-> FALSE]

\* an artifact of the given size, written the given number of seconds ago
File(age, n) == [exists |-> TRUE, age |-> age, size |-> n]

\* the manifest file holding the given rows
ManifestFile(rows) == [exists |-> TRUE, rows |-> rows]

(* ---------------------------------------------------------------------- *)
(* Codes as text.  A cell of the code column is modelled by the text       *)
(* str() renders for it: a sequence of decimal digits.  An integer cell    *)
(* renders without leading zeros, a string cell renders as itself.         *)
(* ---------------------------------------------------------------------- *)
RECURSIVE IntToDigits(_)
\* str(n) for an integer n >= 0
IntToDigits(n) ==
    IF n < 10 THEN <<n>> ELSE Append(IntToDigits(n \div 10), n % 10)

RECURSIVE DigitsToInt(_)
\* int(s) for a digit string s
DigitsToInt(s) ==
    IF Len(s) = 0 THEN 0
    ELSE 10 * DigitsToInt(SubSeq(s, 1, Len(s) - 1)) + s[Len(s)]

RECURSIVE zfill(_, _)
\* str.zfill(w): pad on the left with zeros up to width w
zfill(s, w) == IF Len(s) >= w THEN s ELSE zfill(<<0>> \o s, w)

\* pandas.read_csv on an all-numeric code column: the cell becomes an integer
read_csv_code(s) == IntToDigits(DigitsToInt(s))

\* the listed codes the universe is drawn from, as numbers: one whose text
\* has leading zeros ("0001") and one whose text has none ("1301")
CodeNumbers == {1, 1301}

\* get_tse_list, live: "code": code[:4], a string of four digits
LiveCode(n) == zfill(IntToDigits(n), CodeWidth)

\* get_tse_list, cache fallback: pd.read_csv(LIST_ALL_CSV) yields integers
CachedCode(n) == read_csv_code(LiveCode(n))

\* the artifact of a row: DATA_DIR/<code zfill 4>.T.csv, named by the padded code
out_path(code) == zfill(code, CodeWidth)

Paths == { LiveCode(n) : n \in CodeNumbers }

RECURSIVE SetToSeq(_)
\* the rows of a list in ascending code order
SetToSeq(S) ==
    IF S = {} THEN <<>>
    ELSE LET m == CHOOSE x \in S : \A y \in S : x <= y
         IN  <<m>> \o SetToSeq(S \ {m})

Range(s) == { s[i] : i \in 1..Len(s) }

(* ---------------------------------------------------------------------- *)
(* State                                                                   *)
(* ---------------------------------------------------------------------- *)
VARIABLES
    artifacts,    \* DATA_DIR: path -> NoFile or File(age, size)
    manifest_csv, \* MANIFEST_CSV: NoFile or the rows written by mf.to_csv
    mf,           \* main: the manifest data frame, rows [code, status]
    df_list,      \* main: the list get_tse_list returned (code cells)
    pc,           \* main: position
    queue,        \* executor: submitted rows no worker has taken yet
    running,      \* executor: rows inside download_one
    finished,     \* futures completed and not yet yielded: [idx, status]
    count,        \* main: count
    run,          \* number of the run in progress
    invoked,      \* history: rows download_one was called for in this run
    fitAtBuild,   \* history: rows whose artifact was fit when build_manifest ran
    emptyBefore,  \* history: rows the previous run left with status empty
    elapsed,      \* history: time has passed since the previous run returned
                  \* (kept between two runs only)
    lastList,     \* history: the list of the previous run (kept between two
                  \* runs only)
    interrupted,  \* history: KeyboardInterrupt ended the loop of the latest run
    again,        \* history: this run repeats the previous, complete one at once
    old,          \* history: the rows build_manifest read from the file
    completed,    \* history: [idx, status] of every download_one call that
                  \* returned in this run
    download_stats \* main: the report returned by the last run

VARIABLES
    market,       \* the resolver under study: "hk" or "jp"
    cache,        \* CACHE_LIST_PATH / LIST_ALL_CSV: NoCache or a saved list
    today,        \* datetime.now().date(), as a day number
    r_pc,         \* resolver: position
    hk_i,         \* get_full_stock_list: i of the retry loop
    requests,     \* requests.get calls made by the call in progress
    result,       \* the list the call returned
    via,          \* the return statement the call left by
    cache0,       \* history: the cache file when the call began
    calls         \* number of resolver calls made

VARIABLES
    fetcher,      \* the fetcher under study: "jp" (download_one), "tw" or "hk"
    item_parts,   \* TW, HK: the number of parts item.split('&', 1) yields
    f_pc,         \* fetcher: position
    attempt,      \* the loop variable attempt
    resps,        \* history: the answers of the remote source so far
    log,          \* history: the sleeps, requests and writes performed
    ret,          \* the status returned
    f_file        \* the artifact at the symbol's out_path

VARIABLES
    s_market,     \* the scheduling loop under study: "hk", "tw" or "jp"
    s_pc,         \* main: position
    s_items,      \* len(items): the calls submitted
    s_queue,      \* executor: submitted calls no worker has taken yet
    s_running,    \* executor: calls inside the fetcher
    s_finished,   \* futures completed and not yet yielded, by status
    stats,        \* main: stats, the yielded results by status
    pbar_n,       \* main: pbar.n (JP: count)
    pauses,       \* history: the courtesy sleeps main has taken
    report_stats  \* TW main: the report returned

VARIABLES
    u_market,     \* the list parser under study: "hk", "jp" or "tw"
    u_pc,         \* parser: position
    u_rows,       \* the rows of the published list: [code, name]
    u_out,        \* final_list (HK) / final_df (JP) / final_res (TW): the rows kept
    u_syms        \* HK: the fetch symbol derived for each item of the list

schedVars == <<s_market, s_pc, s_items, s_queue, s_running, s_finished, stats,
               pbar_n, pauses, report_stats>>

uniVars == <<u_market, u_pc, u_rows, u_out, u_syms>>

fetchVars == <<fetcher, item_parts, f_pc, attempt, resps, log, ret, f_file>>

resVars == <<market, cache, today, r_pc, hk_i, requests, result, via, cache0,
             calls>>

pipeVars == <<running, finished, artifacts, manifest_csv, mf, df_list, pc, queue, count, run,
              invoked, fitAtBuild, emptyBefore, elapsed, lastList, again, old,
              interrupted, completed, download_stats>>

vars == <<pipeVars, resVars, fetchVars, schedVars, uniVars>>

Statuses == {"pending", "done", "empty", "failed"}

\* what the specification calls a fresh artifact: present, above the
\* minimum size and younger than the freshness window
Fit(file) ==
    /\ file.exists
    /\ file.size > MinBytes
    /\ file.age < DATA_EXPIRY_SECONDS

\* missing, undersized or older than the freshness window
Unfit(file) ==
    \/ ~file.exists
    \/ file.size <= MinBytes
    \/ file.age >= DATA_EXPIRY_SECONDS

(* ---------------------------------------------------------------------- *)
(* Freshness                                                               *)
(* ---------------------------------------------------------------------- *)
\* lines 100-102 without the size test
IsFresh_any_size(file) ==
    /\ file.exists
    /\ file.age < DATA_EXPIRY_SECONDS

\* build_manifest lines 100-102: the artifact exists, is younger than the
\* window and larger than the minimum size
IsFresh(file) ==
    /\ file.exists
    /\ file.age < DATA_EXPIRY_SECONDS
    /\ file.size > MinBytes

\* lines 96-107 with the two else branches left out: the old status stays
evaluate_keep(row, files) ==
    IF IsFresh(files[out_path(row.code)]) THEN "done" ELSE row.status

\* build_manifest lines 96-107: the status the check gives a row
evaluate(row, files) ==
    IF IsFresh(files[out_path(row.code)]) THEN "done" ELSE "pending"

(* ---------------------------------------------------------------------- *)
(* download_one, as a function of the responses of the remote source       *)
(* ---------------------------------------------------------------------- *)
Responses == {"data", "empty", "error"}

\* the loop body giving up at the first error, without retrying
JPAttempt_give_up(att, resp) ==
    CASE resp = "data" ->
           [ret |-> "done", events |-> <<"jitter", "request", "write">>]
      [] resp = "empty" ->
           [ret |-> IF att = max_retries - 1 THEN "empty" ELSE "none",
            events |-> <<"jitter", "request">>]
      [] OTHER -> [ret |-> "failed", events |-> <<"jitter", "request">>]

\* the loop body returning empty on the first empty answer
JPAttempt_empty_now(att, resp) ==
    CASE resp = "data" ->
           [ret |-> "done", events |-> <<"jitter", "request", "write">>]
      [] resp = "empty" ->
           [ret |-> "empty", events |-> <<"jitter", "request">>]
      [] OTHER ->
           IF att = max_retries - 1
           THEN [ret |-> "failed", events |-> <<"jitter", "request">>]
           ELSE [ret |-> "none", events |-> <<"jitter", "request", "backoff">>]

\* one pass of the loop body, lines 120-140: what it returns ("none": the
\* loop goes on) and the events it performs
JPAttempt(att, resp) ==
    CASE resp = "data" ->
           [ret |-> "done", events |-> <<"jitter", "request", "write">>]
      [] resp = "empty" ->
           [ret |-> IF att = max_retries - 1 THEN "empty" ELSE "none",
            events |-> <<"jitter", "request">>]
      [] OTHER ->
           IF att = max_retries - 1
           THEN [ret |-> "failed", events |-> <<"jitter", "request">>]
           ELSE [ret |-> "none", events |-> <<"jitter", "request", "backoff">>]

RECURSIVE download_one_from(_, _)
\* lines 119-142 from a given attempt on; answers[att + 1] answers it
download_one_from(att, answers) ==
    IF att >= max_retries THEN "failed"
    ELSE LET a == JPAttempt(att, answers[att + 1])
         IN  IF a.ret # "none" THEN a.ret
             ELSE download_one_from(att + 1, answers)

\* the status download_one returns
download_one(answers) == download_one_from(0, answers)

(* ---------------------------------------------------------------------- *)
(* The JP pipeline                                                         *)
(* ---------------------------------------------------------------------- *)
FileSizes == {MinBytes, MinBytes + 1}

\* pd.read_csv(MANIFEST_CSV)
read_manifest(file) ==
    [i \in 1..Len(file.rows) |-> [code |-> read_csv_code(file.rows[i].code),
                                  status |-> file.rows[i].status]]

\* build_manifest lines 83-92: the merge of the list into the old manifest
merge(file, list) ==
    IF file.exists
    THEN LET prev == read_manifest(file)
             known == { prev[i].code : i \in 1..Len(prev) }
             new_codes == SelectSeq(list, LAMBDA c : c \notin known)
         IN  prev \o [i \in 1..Len(new_codes) |->
                        [code |-> new_codes[i], status |-> "pending"]]
    ELSE [i \in 1..Len(list) |-> [code |-> list[i], status |-> "pending"]]

\* build_manifest lines 96-107 over every row
annotate(m, files) ==
    [i \in 1..Len(m) |-> [m[i] EXCEPT !.status = evaluate(m[i], files)]]

\* build_manifest
build_manifest(file, list, files) == annotate(merge(file, list), files)

\* line 154 filtering out only the rows marked empty
todo_not_empty(m) == { i \in 1..Len(m) : m[i].status \notin {"empty"} }

\* main line 154
todo(m) == { i \in 1..Len(m) : m[i].status \notin {"done", "empty"} }

\* main returned no report (line 151)
NoStats == [total |-> 0, success |-> 0, fail |-> 0]

\* no list at all (HK line 117: [], JP line 79: an empty frame)
EmptyList == [len |-> 0, src |-> "none"]

\* no cache file
NoCache == [exists |-> FALSE, len |-> 0, src |-> "none", day |-> 0]

\* the statuses a HK or TW fetcher returns; for JP done is counted as
\* success and failed as error
SchedStatuses == {"success", "exists", "empty", "error"}

\* stats = {"success": 0, "exists": 0, "empty": 0, "error": 0}
ZeroStats == [st \in SchedStatuses |-> 0]

\* no scheduling loop is followed in this specification
SchedulerIdle ==
    /\ s_market = "hk"
    /\ s_pc = "off"
    /\ s_items = 0
    /\ s_queue = 0
    /\ s_running = 0
    /\ s_finished = ZeroStats
    /\ stats = ZeroStats
    /\ pbar_n = 0
    /\ pauses = 0
    /\ report_stats = NoStats

\* no list parser is followed in this specification
UniverseIdle ==
    /\ u_market = "hk"
    /\ u_pc = "off"
    /\ u_rows = <<>>
    /\ u_out = <<>>
    /\ u_syms = <<>>

\* no fetcher call is followed in this specification
FetcherIdle ==
    /\ fetcher = "jp"
    /\ item_parts = 2
    /\ f_pc = "off"
    /\ attempt = 0
    /\ resps = <<>>
    /\ log = <<>>
    /\ ret = "none"
    /\ f_file = "none"

\* the resolvers are not part of this specification
ResolverIdle ==
    /\ market = "jp"
    /\ cache = NoCache
    /\ today = 0
    /\ r_pc = "off"
    /\ hk_i = 0
    /\ requests = 0
    /\ result = EmptyList
    /\ via = "none"
    /\ cache0 = NoCache
    /\ calls = 0

Init ==
    /\ artifacts = [p \in Paths |-> NoFile]
    /\ manifest_csv = NoFile
    /\ mf = <<>>
    /\ df_list = <<>>
    /\ pc = "idle"
    /\ queue = {}
    /\ running = {}
    /\ finished = {}
    /\ count = 0
    /\ run = 0
    /\ invoked = {}
    /\ fitAtBuild = {}
    /\ emptyBefore = {}
    /\ elapsed = FALSE
    /\ lastList = <<>>
    /\ again = FALSE
    /\ interrupted = FALSE
    /\ old = <<>>
    /\ completed = {}
    /\ download_stats = NoStats
    /\ ResolverIdle
    /\ FetcherIdle
    /\ SchedulerIdle
    /\ UniverseIdle

\* the age of a file after half a freshness window more has passed; ages
\* beyond the window all read as expired (line 102) and are kept as one
aged(file) ==
    IF file.exists /\ file.age < DATA_EXPIRY_SECONDS
    THEN [file EXCEPT !.age = file.age + DATA_EXPIRY_SECONDS \div 2]
    ELSE file

\* half a freshness window passes between two runs (the clock is read by
\* build_manifest, line 101)
Tick ==
    /\ pc = "idle"
    /\ run > 0
    /\ artifacts' = [p \in Paths |-> aged(artifacts[p])]
    /\ elapsed' = TRUE
    /\ UNCHANGED <<interrupted, running, finished, manifest_csv, mf, df_list, pc, queue, count, run, invoked,
                   fitAtBuild, emptyBefore, lastList, again, old, download_stats>>
    /\ UNCHANGED completed
    /\ UNCHANGED <<resVars, fetchVars, schedVars, uniVars>>

\* main line 148: the list comes live (strings) or from the cache (integers)
main_get_tse_list ==
    /\ pc = "idle"
    /\ run < MaxRuns
    /\ \E S \in SUBSET CodeNumbers, cached \in BOOLEAN :
         df_list' = [i \in 1..Cardinality(S) |->
                       IF cached THEN CachedCode(SetToSeq(S)[i])
                                 ELSE LiveCode(SetToSeq(S)[i])]
    /\ again' = (run > 0 /\ ~elapsed /\ ~interrupted /\ df_list' = lastList)
    /\ interrupted' = FALSE
    /\ elapsed' = FALSE
    /\ lastList' = <<>>
    /\ run' = run + 1
    /\ pc' = "resolved"
    /\ UNCHANGED <<running, finished, artifacts, manifest_csv, mf, queue, count, invoked,
                   fitAtBuild, emptyBefore, old, download_stats>>
    /\ UNCHANGED completed
    /\ UNCHANGED <<resVars, fetchVars, schedVars, uniVars>>

\* main line 152
main_build_manifest ==
    /\ pc = "resolved"
    /\ df_list # <<>>
    /\ mf' = build_manifest(manifest_csv, df_list, artifacts)
    /\ manifest_csv' = ManifestFile(mf')
    /\ old' = IF manifest_csv.exists THEN read_manifest(manifest_csv) ELSE <<>>
    /\ fitAtBuild' = { i \in 1..Len(mf') : Fit(artifacts[out_path(mf'[i].code)]) }
    /\ emptyBefore' = { i \in 1..Len(old') : old'[i].status = "empty" }
    /\ pc' = "built"
    /\ UNCHANGED <<interrupted, running, finished, artifacts, df_list, queue,  count,
                   run, invoked, elapsed, lastList, again, download_stats>>
    /\ UNCHANGED completed
    /\ UNCHANGED <<resVars, fetchVars, schedVars, uniVars>>

\* main lines 178-186
report(m) ==
    LET total_expected == Len(m)
        effective_success == Cardinality({ i \in 1..Len(m) : m[i].status = "done" })
    IN  [total |-> total_expected, success |-> effective_success,
         fail |-> total_expected - effective_success]

\* main lines 149-151: no list, the run ends without a report
main_no_list ==
    /\ pc = "resolved"
    /\ df_list = <<>>
    /\ pc' = "returned"
    /\ UNCHANGED <<interrupted, running, finished, artifacts, manifest_csv, mf, df_list, queue,  count, run, invoked, fitAtBuild, emptyBefore, again, old,
                   download_stats, elapsed, lastList>>
    /\ UNCHANGED completed
    /\ UNCHANGED <<resVars, fetchVars, schedVars, uniVars>>

\* main lines 154-159: the rows to fetch are submitted to the executor
main_submit ==
    /\ pc = "built"
    /\ todo(mf) # {}
    /\ queue' = todo(mf)
    /\ pc' = "loop"
    /\ old' = <<>>
    /\ UNCHANGED <<interrupted, running, finished, artifacts, manifest_csv, mf, df_list,  count, run, invoked, fitAtBuild, emptyBefore, elapsed,
                   lastList, again, download_stats>>
    /\ UNCHANGED completed
    /\ UNCHANGED <<resVars, fetchVars, schedVars, uniVars>>

\* main lines 175-194: nothing to fetch, the report is returned
main_all_fresh ==
    /\ pc = "built"
    /\ todo(mf) = {}
    /\ download_stats' = report(mf)
    /\ pc' = "returned"
    /\ old' = <<>>
    /\ UNCHANGED <<interrupted, running, finished, artifacts, manifest_csv, mf, df_list, queue,  count, run, invoked, fitAtBuild, emptyBefore, again, elapsed, lastList>>
    /\ UNCHANGED completed
    /\ UNCHANGED <<resVars, fetchVars, schedVars, uniVars>>

\* download_one also ending without a terminal status for its row
Outcomes_unwinding ==
    { download_one(answers) : answers \in [1..max_retries -> Responses] }
        \cup {"pending"}

\* the statuses download_one can return, over every run of responses
Outcomes == { download_one(answers) : answers \in [1..max_retries -> Responses] }

\* a download_one that reports done without writing the artifact
written_nothing(files, code, status, size) == files

\* the data directory after download_one returned status for a row: the
\* artifact is written on "done" (line 134)
written(files, code, status, size) ==
    IF status = "done"
    THEN [files EXCEPT ![out_path(code)] = File(0, size)]
    ELSE files

\* ThreadPoolExecutor(max_workers=THREADS), line 158: a submitted call is
\* taken only by one of the THREADS worker threads, each running one call
pool_has_idle_worker(r) == Cardinality(r) < THREADS

\* a worker of the pool takes the oldest submitted row and enters
\* download_one (the executor's work queue is first in, first out)
worker_start(i) ==
    /\ pc \in {"loop", "shutdown"}
    /\ i \in queue
    /\ \A j \in queue : i <= j
    /\ pool_has_idle_worker(running)
    /\ queue' = queue \ {i}
    /\ running' = running \cup {i}
    /\ invoked' = invoked \cup {i}
    /\ UNCHANGED <<interrupted, artifacts, manifest_csv, mf, df_list, pc, finished, count,
                   run, fitAtBuild, emptyBefore, elapsed, lastList, again, old,
                   download_stats>>
    /\ UNCHANGED completed
    /\ UNCHANGED <<resVars, fetchVars, schedVars, uniVars>>

\* download_one returns (lines 112-142); the artifact is written on "done"
worker_finish(i) ==
    /\ i \in running
    /\ \E status \in Outcomes, size \in FileSizes :
         /\ status # "done" => size = MinBytes
         /\ finished' = finished \cup {[idx |-> i, status |-> status]}
         /\ completed' = completed \cup {[idx |-> i, status |-> status]}
         /\ artifacts' = written(artifacts, mf[i].code, status, size)
    /\ running' = running \ {i}
    /\ UNCHANGED <<interrupted, manifest_csv, mf, df_list, pc, queue, count, run, invoked,
                   fitAtBuild, emptyBefore, elapsed, lastList, again, old, download_stats>>
    /\ UNCHANGED <<resVars, fetchVars, schedVars, uniVars>>

\* a loop that never flushes
checkpoint_never(n) == FALSE

\* main line 168: count % 100 == 0, with the interval of the model
checkpoint_due(n) == n % CheckpointEvery = 0

\* main lines 163-169: one pass of the as_completed loop
main_collect(f) ==
    /\ pc = "loop"
    /\ f \in finished
    /\ finished' = finished \ {f}
    /\ mf' = [mf EXCEPT ![f.idx].status = f.status]
    /\ count' = count + 1
    /\ manifest_csv' = IF checkpoint_due(count') THEN ManifestFile(mf')
                       ELSE manifest_csv
    /\ UNCHANGED <<interrupted, artifacts, df_list, pc, queue, running, run, invoked,
                   fitAtBuild, emptyBefore, elapsed, lastList, again, old, download_stats>>
    /\ UNCHANGED completed
    /\ UNCHANGED <<resVars, fetchVars, schedVars, uniVars>>

\* main lines 170-174: KeyboardInterrupt leaves the loop; the manifest is
\* flushed and the with-block waits for the executor (shutdown(wait=True))
main_interrupt ==
    /\ pc = "loop"
    /\ manifest_csv' = ManifestFile(mf)
    /\ pc' = "shutdown"
    /\ interrupted' = TRUE
    /\ UNCHANGED <<artifacts, mf, df_list, queue, running, finished, count,
                   run, invoked, fitAtBuild, emptyBefore, elapsed, lastList, again, old,
                   download_stats>>
    /\ UNCHANGED completed
    /\ UNCHANGED <<resVars, fetchVars, schedVars, uniVars>>

\* main lines 172-194: every future was yielded; the loop ends, the manifest
\* is flushed and the report returned
main_loop_end ==
    /\ pc = "loop"
    /\ queue = {} /\ running = {} /\ finished = {}
    /\ manifest_csv' = ManifestFile(mf)
    /\ download_stats' = report(mf)
    /\ pc' = "returned"
    /\ UNCHANGED <<interrupted, artifacts, mf, df_list, queue, running, finished, count,
                   run, invoked, fitAtBuild, emptyBefore, again, old, elapsed, lastList>>
    /\ UNCHANGED completed
    /\ UNCHANGED <<resVars, fetchVars, schedVars, uniVars>>

\* after an interrupt: the executor has run every submitted call, the
\* with-block is left and the report returned (lines 178-194); the futures
\* nobody read are dropped
main_shutdown_done ==
    /\ pc = "shutdown"
    /\ queue = {} /\ running = {}
    /\ finished' = {}
    /\ download_stats' = report(mf)
    /\ pc' = "returned"
    /\ UNCHANGED <<interrupted, artifacts, manifest_csv, mf, df_list, queue, running,
                   count, run, invoked, fitAtBuild, emptyBefore, again, old, elapsed,
                   lastList>>
    /\ UNCHANGED completed
    /\ UNCHANGED <<resVars, fetchVars, schedVars, uniVars>>

\* the process ends: what main held in memory is gone, the files stay
main_exit ==
    /\ pc = "returned"
    /\ pc' = "idle"
    /\ elapsed' = FALSE
    /\ lastList' = df_list
    /\ mf' = <<>>
    /\ df_list' = <<>>
    /\ count' = 0
    /\ invoked' = {}
    /\ fitAtBuild' = {}
    /\ emptyBefore' = {}
    /\ again' = FALSE
    /\ completed' = {}
    /\ download_stats' = NoStats
    /\ UNCHANGED <<interrupted, running, finished, artifacts, manifest_csv, queue, run, old>>
    /\ UNCHANGED <<resVars, fetchVars, schedVars, uniVars>>

Next ==
    \/ Tick
    \/ main_get_tse_list
    \/ main_no_list
    \/ main_build_manifest
    \/ main_submit
    \/ main_all_fresh
    \/ \E i \in queue : worker_start(i)
    \/ \E i \in running : worker_finish(i)
    \/ \E f \in finished : main_collect(f)
    \/ main_interrupt
    \/ main_loop_end
    \/ main_shutdown_done
    \/ main_exit

Spec == Init /\ [][Next]_vars

\* the steps the program takes by itself: main goes on to build, submit and
\* read results, the pool's threads take queued calls, download_one returns
\* (three attempts, each request bounded by its timeout)
Progress ==
    \/ main_build_manifest
    \/ main_no_list
    \/ main_submit
    \/ main_all_fresh
    \/ \E i \in queue : worker_start(i)
    \/ \E i \in running : worker_finish(i)
    \/ \E f \in finished : main_collect(f)
    \/ main_loop_end
    \/ main_shutdown_done

\* what download_one left for a row of an earlier run
SeedOutcomes == {"done_big", "done_small", "failed", "empty"}

\* the data directory as a complete first run on some list left it (an
\* empty list leaves it as it was created), the last run of the model to
\* come; time may pass before that run starts (Tick)
InitAfterRun ==
    \E S \in SUBSET CodeNumbers, cached \in BOOLEAN :
      \E oc \in [S -> SeedOutcomes] :
        LET codes == SetToSeq(S)
            list == [i \in 1..Len(codes) |->
                       IF cached THEN CachedCode(codes[i])
                                 ELSE LiveCode(codes[i])]
            rows == [i \in 1..Len(codes) |->
                       [code |-> list[i],
                        status |-> IF oc[codes[i]] \in {"done_big", "done_small"}
                                   THEN "done" ELSE oc[codes[i]]]]
            file(n) == CASE oc[n] = "done_big" -> File(0, MinBytes + 1)
                         [] oc[n] = "done_small" -> File(0, MinBytes)
                         [] OTHER -> NoFile
        IN  /\ artifacts = [p \in Paths |->
                             IF \E n \in S : LiveCode(n) = p
                             THEN file(CHOOSE n \in S : LiveCode(n) = p)
                             ELSE NoFile]
            /\ manifest_csv = IF S = {} THEN NoFile ELSE ManifestFile(rows)
            /\ lastList = list
            /\ run = MaxRuns - 1
            /\ mf = <<>>
            /\ df_list = <<>>
            /\ pc = "idle"
            /\ queue = {}
            /\ running = {}
            /\ finished = {}
            /\ count = 0
            /\ invoked = {}
            /\ fitAtBuild = {}
            /\ emptyBefore = {}
            /\ elapsed = FALSE
            /\ again = FALSE
            /\ interrupted = FALSE
            /\ old = <<>>
            /\ completed = {}
            /\ download_stats = NoStats
            /\ ResolverIdle
            /\ FetcherIdle
            /\ SchedulerIdle
            /\ UniverseIdle

\* one run of the pipeline on a data directory an earlier run left, where
\* the program does not halt while it has a step to take.  Nothing makes an
\* interrupt or the passing of time happen.
LiveSpec == InitAfterRun /\ [][Next]_vars /\ WF_vars(Progress)

(* ---------------------------------------------------------------------- *)
(* Claims about the JP pipeline (Spec)                                     *)
(* ---------------------------------------------------------------------- *)
\* the artifact of row i of the manifest
artifact_of(i) == artifacts[out_path(mf[i].code)]

\* C1: a row whose artifact was present, larger than the minimum size and
\* younger than the freshness window when the run evaluated it is never
\* handed to download_one during that run
C1_FreshNeverFetched == \A i \in invoked : i \notin fitAtBuild

\* a run has ended in which one row was skipped as fresh and another fetched
C1_Witness ==
    /\ pc = "returned"
    /\ fitAtBuild # {}
    /\ invoked # {}

\* C2: after build_manifest every row whose artifact is missing, undersized
\* or older than the freshness window is pending, whatever the persisted
\* manifest said about it
C2_UnfitIsPending ==
    pc = "built" =>
        \A i \in 1..Len(mf) : Unfit(artifact_of(i)) => mf[i].status = "pending"

\* build_manifest has run on a manifest that recorded done, empty and failed
\* rows: a done row whose artifact expired, and an empty or failed row with
\* no artifact, are pending again
C2_Witness ==
    /\ pc = "built"
    /\ \E i \in 1..Len(old) :
         /\ old[i].status = "done"
         /\ artifact_of(i).exists
         /\ artifact_of(i).size > MinBytes
         /\ artifact_of(i).age >= DATA_EXPIRY_SECONDS
         /\ mf[i].status = "pending"
    /\ \E i \in 1..Len(old) :
         /\ old[i].status \in {"empty", "failed"}
         /\ ~artifact_of(i).exists
         /\ mf[i].status = "pending"

\* C3 as claimed: a row the previous run left with status empty is not
\* handed to download_one in the next run
C3_EmptyNotRetried == \A i \in invoked : i \notin emptyBefore

\* C4 as claimed: a run that repeats the previous one at once, on the same
\* list, calls download_one for no row
C4_SecondRunFetchesNothing == again => invoked = {}

\* C4 amended: in a run that repeats the previous one at once, on the same
\* list, the rows selected for fetching are exactly the rows whose artifact
\* is missing, undersized or expired; the rows the previous run left failed
\* or empty without a fit artifact are among them
C4_SecondRunFetchesUnfit ==
    (again /\ pc = "built") =>
        /\ todo(mf) = { i \in 1..Len(mf) : Unfit(artifact_of(i)) }
        /\ \A i \in 1..Len(old) :
             (old[i].status \in {"failed", "empty"} /\ Unfit(artifact_of(i)))
                 => i \in todo(mf)

\* an immediate second run where a row left failed is selected again, a row
\* left done with a fit artifact is not, and a row left done with an
\* undersized artifact is
C4_Witness ==
    /\ again
    /\ pc = "built"
    /\ \E i \in 1..Len(old) : old[i].status = "failed" /\ i \in todo(mf)
    /\ \E i \in 1..Len(old) :
         /\ old[i].status = "done"
         /\ \/ Fit(artifact_of(i)) /\ i \notin todo(mf)
            \/ artifact_of(i).exists /\ artifact_of(i).size <= MinBytes
               /\ i \in todo(mf)

\* C5 as claimed: the merged manifest has one row per zero-padded code, and
\* its codes are those of the old manifest and of the list together
C5_MergeKeyUnique ==
    pc = "built" =>
        /\ \A i, j \in 1..Len(mf) :
             out_path(mf[i].code) = out_path(mf[j].code) => i = j
        /\ { out_path(mf[i].code) : i \in 1..Len(mf) }
             = { out_path(old[i].code) : i \in 1..Len(old) }
               \cup { out_path(df_list[i]) : i \in 1..Len(df_list) }

\* the rows whose status in memory differs from the one in MANIFEST_CSV
unflushed == { i \in 1..Len(mf) : mf[i].status # manifest_csv.rows[i].status }

\* C14: in the loop fewer than CheckpointEvery collected statuses are in
\* memory only; once the loop is left, by its end or by an interrupt, the
\* manifest file holds the manifest main has in memory
C14_CheckpointBound ==
    /\ pc = "loop" => Cardinality(unflushed) <= CheckpointEvery - 1
    /\ (pc \in {"shutdown", "returned"} /\ mf # <<>>)
          => manifest_csv = ManifestFile(mf)

\* the loop has just flushed at a checkpoint while rows are still to come
C14_Witness ==
    /\ pc = "loop"
    /\ count = CheckpointEvery
    /\ queue \cup running # {}
    /\ manifest_csv = ManifestFile(mf)
    /\ \E i \in 1..Len(mf) : i \in invoked /\ mf[i].status # "pending"

\* C15 as claimed: once the interrupt has ended the loop, no row that had
\* not been started is started
C15_NoStartAfterInterrupt == [][pc = "shutdown" => invoked' \subseteq invoked]_vars

\* C16 as claimed: when main returns, the manifest file holds, for every
\* row whose download_one returned during the run, the status it returned
C16_NoResultDiscarded ==
    (pc = "returned" /\ mf # <<>>) =>
        \A f \in completed : manifest_csv.rows[f.idx].status = f.status

\* C18 as claimed, for JP: total is the number of manifest rows, success
\* the rows fetched in this run plus the rows skipped as fresh, and
\* success + fail = total
C18_SummaryCounts ==
    (pc = "returned" /\ mf # <<>>) =>
        /\ download_stats.total = Len(mf)
        /\ download_stats.success =
              Cardinality(fitAtBuild)
              + Cardinality({ f \in completed : f.status = "done" })
        /\ download_stats.success + download_stats.fail = download_stats.total

\* the rows build_manifest left to fetch
selected == (1..Len(mf)) \ fitAtBuild

\* C19: in a run that is not interrupted every selected row is handed to
\* download_one, a row once handed over is never queued or started again,
\* the run returns, and then no selected row is pending
C19_BatchCompletes ==
    /\ [](( pc = "returned" /\ ~interrupted /\ mf # <<>>) =>
            \A i \in selected :
               /\ i \in invoked
               /\ Cardinality({ f \in completed : f.idx = i }) = 1
               /\ mf[i].status \in {"done", "empty", "failed"})
    /\ [][\A i \in invoked :
            i \notin queue' /\ (i \in running' => i \in running)]_vars
    /\ (pc \in {"built", "loop"}) ~> (pc = "returned" \/ interrupted)

\* an uninterrupted run has returned with one row failed and another done
C19_Witness ==
    /\ pc = "returned" /\ ~interrupted
    /\ \E i, j \in selected :
         /\ mf[i].status = "failed"
         /\ mf[j].status = "done"
         /\ i < j

\* C23: from build_manifest on, at every checkpoint and at the return, a
\* row that is done in the manifest, in memory or as last saved, has its
\* artifact file on disk
C23_DoneHasArtifact ==
    pc \in {"built", "loop", "shutdown", "returned"} =>
        /\ \A i \in 1..Len(mf) :
             mf[i].status = "done" => artifact_of(i).exists
        /\ manifest_csv.exists =>
             \A i \in 1..Len(manifest_csv.rows) :
                 manifest_csv.rows[i].status = "done" =>
                     artifacts[out_path(manifest_csv.rows[i].code)].exists

\* a run has returned with one row done by the freshness check and another
\* done by download_one, and the manifest was saved with both
C23_Witness ==
    /\ pc = "returned"
    /\ \E i \in fitAtBuild, j \in invoked :
         /\ mf[i].status = "done" /\ artifact_of(i).exists
         /\ mf[j].status = "done" /\ artifact_of(j).exists
         /\ manifest_csv.rows = mf

(* ---------------------------------------------------------------------- *)
(* The universe resolvers: get_full_stock_list (HK) and get_tse_list (JP)  *)
(* A list is modelled by its length and by where its content came from.   *)
(* ---------------------------------------------------------------------- *)
\* number of resolver calls followed
MaxCalls == 2
\* number of day changes followed
MaxDays == 1

\* downloader_hk.py: threshold = 2000
threshold_hk == 2000
\* downloader_jp.py: threshold = 3800
threshold_jp == 3800
\* downloader_hk.py: max_retries = 3 (get_full_stock_list)
list_max_retries == 3

\* threshold of the market's resolver
threshold(m) == IF m = "hk" THEN threshold_hk ELSE threshold_jp

\* the list a live source delivered: n rows after parsing and deduplication
Live(n) == IF n = 0 THEN EmptyList ELSE [len |-> n, src |-> "live"]

\* json.load / pd.read_csv of the cache file
load(c) == [len |-> c.len, src |-> c.src]

\* json.dump / to_csv of a list into the cache file, on the given day
dump(list, day) ==
    [exists |-> TRUE, len |-> list.len, src |-> list.src, day |-> day]

\* the row counts a live source is seen to deliver
LiveCounts(m) == {0, 10, threshold(m) - 1, threshold(m), threshold(m) + 1}

\* the cache files a call can find: none, one of 10 rows, one of exactly
\* threshold rows, left on an earlier day or today
SeedCaches(m) ==
    {NoCache} \cup
    { [exists |-> TRUE, len |-> n, src |-> "seed", day |-> d] :
        n \in {10, threshold(m)}, d \in {0, 1} }

\* HK line 59 without the size test
cache_hit_any_size(c, day) == c.exists /\ c.day = day

\* HK lines 53-59: a cache written today that holds at least threshold rows
cache_hit(c, day) == c.exists /\ c.day = day /\ c.len >= threshold_hk

\* a write guard that accepts every non-empty list
accepted_any(m, n) == n > 0

\* HK line 98, JP lines 69-72: the live list is large enough to be kept
accepted(m, n) == n >= threshold(m)

\* HK lines 112-117, JP lines 71 and 79: the persisted cache, else nothing
fallback(c) == IF c.exists THEN load(c) ELSE EmptyList

\* the pipeline is not part of this specification
PipelineIdle ==
    /\ artifacts = [p \in Paths |-> NoFile]
    /\ manifest_csv = NoFile
    /\ mf = <<>>
    /\ df_list = <<>>
    /\ pc = "off"
    /\ queue = {}
    /\ running = {}
    /\ finished = {}
    /\ count = 0
    /\ run = 0
    /\ invoked = {}
    /\ fitAtBuild = {}
    /\ emptyBefore = {}
    /\ elapsed = FALSE
    /\ lastList = <<>>
    /\ again = FALSE
    /\ interrupted = FALSE
    /\ old = <<>>
    /\ completed = {}
    /\ download_stats = NoStats

InitResolver ==
    /\ PipelineIdle
    /\ FetcherIdle
    /\ SchedulerIdle
    /\ UniverseIdle
    /\ market \in {"hk", "jp"}
    /\ cache \in SeedCaches(market)
    /\ today = 1
    /\ r_pc = "idle"
    /\ hk_i = 0
    /\ requests = 0
    /\ result = EmptyList
    /\ via = "none"
    /\ cache0 = cache
    /\ calls = 0

\* HK lines 53-62: the check of today's cache, taken or not
get_full_stock_list_cache ==
    /\ market = "hk"
    /\ r_pc = "idle"
    /\ calls < MaxCalls
    /\ calls' = calls + 1
    /\ cache0' = cache
    /\ requests' = 0
    /\ hk_i' = 0
    /\ IF cache_hit(cache, today)
       THEN /\ result' = load(cache)
            /\ via' = "fast"
            /\ r_pc' = "returned"
       ELSE /\ result' = EmptyList
            /\ via' = "none"
            /\ r_pc' = "attempt"
    /\ UNCHANGED <<market, cache, today>>
    /\ UNCHANGED <<pipeVars, fetchVars, schedVars, uniVars>>

\* HK lines 68-109: one pass of the retry loop; the request fails or
\* delivers n rows
get_full_stock_list_attempt ==
    /\ market = "hk"
    /\ r_pc = "attempt"
    /\ requests' = requests + 1
    /\ \E ok \in BOOLEAN, n \in LiveCounts("hk") :
         IF ok /\ accepted("hk", n)
         THEN /\ cache' = dump(Live(n), today)
              /\ result' = Live(n)
              /\ via' = "live"
              /\ r_pc' = "returned"
              /\ hk_i' = hk_i
         ELSE /\ (~ok => n = 0)
              /\ hk_i' = hk_i + 1
              /\ r_pc' = IF hk_i' < list_max_retries THEN "attempt" ELSE "fallback"
              /\ UNCHANGED <<cache, result, via>>
    /\ UNCHANGED <<market, today, cache0, calls>>
    /\ UNCHANGED <<pipeVars, fetchVars, schedVars, uniVars>>

\* HK lines 111-117: every attempt failed
get_full_stock_list_fallback ==
    /\ market = "hk"
    /\ r_pc = "fallback"
    /\ result' = fallback(cache)
    /\ via' = "fallback"
    /\ r_pc' = "returned"
    /\ UNCHANGED <<market, cache, today, hk_i, requests, cache0, calls>>
    /\ UNCHANGED <<pipeVars, fetchVars, schedVars, uniVars>>

\* JP lines 46-79: the source file cannot be read, or yields n rows
get_tse_list ==
    /\ market = "jp"
    /\ r_pc = "idle"
    /\ calls < MaxCalls
    /\ calls' = calls + 1
    /\ cache0' = cache
    /\ \E ok \in BOOLEAN, n \in LiveCounts("jp") :
         IF ~ok
         THEN /\ n = 0
              /\ result' = fallback(cache)
              /\ via' = "fallback"
              /\ UNCHANGED cache
         ELSE IF accepted("jp", n)
         THEN /\ cache' = dump(Live(n), today)
              /\ result' = Live(n)
              /\ via' = "live"
         ELSE IF cache.exists
         THEN /\ result' = load(cache)
              /\ via' = "fallback"
              /\ UNCHANGED cache
         ELSE /\ result' = Live(n)
              /\ via' = "live"
              /\ UNCHANGED cache
    /\ r_pc' = "returned"
    /\ UNCHANGED <<market, today, hk_i, requests>>
    /\ UNCHANGED <<pipeVars, fetchVars, schedVars, uniVars>>

\* the caller has the list; the next call may follow
resolver_return ==
    /\ r_pc = "returned"
    /\ r_pc' = "idle"
    /\ UNCHANGED <<market, cache, today, hk_i, requests, result, via, cache0,
                   calls>>
    /\ UNCHANGED <<pipeVars, fetchVars, schedVars, uniVars>>

\* midnight passes between two calls
NewDay ==
    /\ r_pc = "idle"
    /\ calls > 0
    /\ today < 1 + MaxDays
    /\ today' = today + 1
    /\ UNCHANGED <<market, cache, r_pc, hk_i, requests, result, via, cache0,
                   calls>>
    /\ UNCHANGED <<pipeVars, fetchVars, schedVars, uniVars>>

NextResolver ==
    \/ get_full_stock_list_cache
    \/ get_full_stock_list_attempt
    \/ get_full_stock_list_fallback
    \/ get_tse_list
    \/ resolver_return
    \/ NewDay

SpecResolver == InitResolver /\ [][NextResolver]_vars

(* ---------------------------------------------------------------------- *)
(* Claims about the resolvers (SpecResolver)                               *)
(* ---------------------------------------------------------------------- *)
\* C6: get_full_stock_list leaves by the fast path only with a cache written
\* today that holds at least threshold rows, and then without any request;
\* a call that finds a cache of today with fewer rows makes a live request
C6_FastPathOnlyWhenWhole ==
    (market = "hk" /\ r_pc = "returned") =>
        /\ via = "fast" =>
             /\ cache0.exists /\ cache0.day = today
             /\ cache0.len >= threshold_hk
             /\ requests = 0
             /\ result = load(cache0)
        /\ (cache0.exists /\ cache0.day = today /\ cache0.len < threshold_hk)
             => requests >= 1

\* a call returned today's cache by the fast path
C6_Witness ==
    /\ market = "hk" /\ r_pc = "returned" /\ via = "fast"
    /\ cache0.day = today /\ cache0.len >= threshold_hk /\ requests = 0

\* C7: every step that changes the cache file writes the live list of that
\* step, and that list has at least threshold rows; any other step, a
\* sub-threshold or failed attempt included, leaves the file as it was
C7_CacheWrittenOnlyWhole ==
    [][ cache' # cache =>
          /\ cache'.exists
          /\ cache'.src = "live"
          /\ cache'.len >= threshold(market)
          /\ result' = load(cache') ]_vars

\* a call whose attempts all failed has returned, after an earlier call
\* wrote the cache: the file still holds the whole list written then
C7_Witness ==
    /\ r_pc = "returned" /\ via = "fallback"
    /\ cache.exists /\ cache.src = "live" /\ cache.len >= threshold(market)
    /\ cache0 = cache

\* C8 as claimed: a call that no live list large enough ended returns the
\* persisted cache if there is one and the empty list otherwise, and never
\* a live list shorter than the threshold
C8_NoTruncatedList ==
    r_pc = "returned" =>
        /\ (result.src = "live" /\ result.len > 0)
              => result.len >= threshold(market)
        /\ (via # "fast" /\ ~(result.src = "live" /\ result.len >= threshold(market)))
              => result = fallback(cache0)
(* ---------------------------------------------------------------------- *)
(* One call of a per-symbol fetcher: download_one (JP) and                 *)
(* download_stock_data (TW), answer by answer                              *)
(* ---------------------------------------------------------------------- *)
\* downloader_tw.py: for attempt in range(2)
tw_attempts == 2

\* the attempts the fetcher's loop makes
attempts_of(f) ==
    CASE f = "jp" -> max_retries
      [] f = "tw" -> tw_attempts
      [] OTHER -> 1

\* TW lines 95-105, one pass of the loop body: an error is followed by a
\* backoff sleep on every pass, an empty answer ends the call on the last
TWAttempt(att, resp) ==
    CASE resp = "data" ->
           [ret |-> "success", events |-> <<"request", "write">>]
      [] resp = "empty" ->
           [ret |-> IF att = 1 THEN "empty" ELSE "none",
            events |-> <<"request">>]
      [] OTHER -> [ret |-> "none", events |-> <<"request", "backoff">>]

\* TW lines 87-90: the artifact was written today and holds over 1000 bytes
tw_cached(file) == file = "today_big"

\* HK line 128: the artifact exists and holds over 1000 bytes, of any day
hk_cached(file) == file \in {"today_big", "old_big"}

\* the split test never failing an item
malformed_never(parts) == FALSE

\* TW line 80: len(parts) < 2, the item has no '&'
malformed(parts) == parts < 2

\* HK line 124: code5, name = item.split('&', 1) raises unless it yields
\* two parts
unpack_fails(parts) == parts # 2

\* HK lines 134-146: the single request and what it returns
HKRequest(resp) ==
    CASE resp = "data" ->
           [ret |-> "success", events |-> <<"request", "write">>]
      [] resp = "empty" -> [ret |-> "empty", events |-> <<"request">>]
      [] OTHER -> [ret |-> "error", events |-> <<"request">>]

\* what out_path can hold: nothing, or a file by the day of its last write
\* and by whether it holds over 1000 bytes
FetchFiles == {"none", "today_big", "today_small", "old_big"}

\* hist.to_csv(out_path): the file is of today, of the size of the data
to_csv(events, file, big) ==
    IF \E k \in 1..Len(events) : events[k] = "write"
    THEN IF big THEN "today_big" ELSE "today_small"
    ELSE file

InitFetch ==
    /\ PipelineIdle
    /\ ResolverIdle
    /\ SchedulerIdle
    /\ UniverseIdle
    /\ fetcher \in {"jp", "tw", "hk"}
    /\ item_parts \in IF fetcher = "jp" THEN {2} ELSE {1, 2}
    /\ f_pc = "call"
    /\ attempt = 0
    /\ resps = <<>>
    /\ log = <<>>
    /\ ret = "none"
    /\ f_file \in FetchFiles

\* JP lines 112-119: download_one is entered
download_one_begin ==
    /\ fetcher = "jp"
    /\ f_pc = "call"
    /\ f_pc' = "loop"
    /\ UNCHANGED <<fetcher, item_parts, attempt, resps, log, ret, f_file>>
    /\ UNCHANGED <<pipeVars, resVars, schedVars, uniVars>>

\* JP lines 120-142: one pass of the loop, with the answer of the source
download_one_attempt ==
    /\ fetcher = "jp"
    /\ f_pc = "loop"
    /\ \E resp \in Responses :
         LET a == JPAttempt(attempt, resp)
         IN  /\ resps' = Append(resps, resp)
             /\ log' = log \o a.events
             /\ IF a.ret # "none"
                THEN /\ ret' = a.ret
                     /\ f_pc' = "returned"
                     /\ attempt' = attempt
                ELSE /\ attempt' = attempt + 1
                     /\ ret' = IF attempt' >= max_retries THEN "failed" ELSE ret
                     /\ f_pc' = IF attempt' >= max_retries THEN "returned"
                                ELSE "loop"
             /\ \E big \in IF resp = "data" THEN BOOLEAN ELSE {TRUE} :
                  f_file' = to_csv(a.events, f_file, big)
    /\ UNCHANGED <<fetcher, item_parts>>
    /\ UNCHANGED <<pipeVars, resVars, schedVars, uniVars>>

\* TW lines 77-93: the item is split, the artifact of today is looked for,
\* the jitter sleep is taken
download_stock_data_begin ==
    /\ fetcher = "tw"
    /\ f_pc = "call"
    /\ IF malformed(item_parts)
       THEN /\ ret' = "error"
            /\ f_pc' = "returned"
            /\ log' = log
       ELSE IF tw_cached(f_file)
       THEN /\ ret' = "exists"
            /\ f_pc' = "returned"
            /\ log' = log
       ELSE /\ ret' = ret
            /\ f_pc' = "loop"
            /\ log' = Append(log, "jitter")
    /\ UNCHANGED <<fetcher, item_parts, attempt, resps, f_file>>
    /\ UNCHANGED <<pipeVars, resVars, schedVars, uniVars>>

\* TW lines 95-107: one pass of the loop, with the answer of the source
download_stock_data_attempt ==
    /\ fetcher = "tw"
    /\ f_pc = "loop"
    /\ \E resp \in Responses :
         LET a == TWAttempt(attempt, resp)
         IN  /\ resps' = Append(resps, resp)
             /\ log' = log \o a.events
             /\ IF a.ret # "none"
                THEN /\ ret' = a.ret
                     /\ f_pc' = "returned"
                     /\ attempt' = attempt
                ELSE /\ attempt' = attempt + 1
                     /\ ret' = IF attempt' >= tw_attempts THEN "empty" ELSE ret
                     /\ f_pc' = IF attempt' >= tw_attempts THEN "returned"
                                ELSE "loop"
             /\ \E big \in IF resp = "data" THEN BOOLEAN ELSE {TRUE} :
                  f_file' = to_csv(a.events, f_file, big)
    /\ UNCHANGED <<fetcher, item_parts>>
    /\ UNCHANGED <<pipeVars, resVars, schedVars, uniVars>>

\* HK lines 123-132: the item is unpacked, the artifact is looked for, the
\* jitter sleep is taken
hk_download_stock_data_begin ==
    /\ fetcher = "hk"
    /\ f_pc = "call"
    /\ IF unpack_fails(item_parts)
       THEN /\ ret' = "error"
            /\ f_pc' = "returned"
            /\ log' = log
       ELSE IF hk_cached(f_file)
       THEN /\ ret' = "exists"
            /\ f_pc' = "returned"
            /\ log' = log
       ELSE /\ ret' = ret
            /\ f_pc' = "loop"
            /\ log' = Append(log, "jitter")
    /\ UNCHANGED <<fetcher, item_parts, attempt, resps, f_file>>
    /\ UNCHANGED <<pipeVars, resVars, schedVars, uniVars>>

\* HK lines 134-148: the one request, with the answer of the source
hk_download_stock_data_request ==
    /\ fetcher = "hk"
    /\ f_pc = "loop"
    /\ \E resp \in Responses :
         LET a == HKRequest(resp)
         IN  /\ resps' = Append(resps, resp)
             /\ log' = log \o a.events
             /\ ret' = a.ret
             /\ \E big \in IF resp = "data" THEN BOOLEAN ELSE {TRUE} :
                  f_file' = to_csv(a.events, f_file, big)
    /\ f_pc' = "returned"
    /\ UNCHANGED <<fetcher, item_parts, attempt>>
    /\ UNCHANGED <<pipeVars, resVars, schedVars, uniVars>>

NextFetch ==
    \/ download_one_begin
    \/ download_one_attempt
    \/ download_stock_data_begin
    \/ download_stock_data_attempt
    \/ hk_download_stock_data_begin
    \/ hk_download_stock_data_request

SpecFetch == InitFetch /\ [][NextFetch]_vars

(* ---------------------------------------------------------------------- *)
(* Claims about the fetchers (SpecFetch)                                   *)
(* ---------------------------------------------------------------------- *)
\* every answer so far was an error
AllErrors == resps # <<>> /\ \A k \in 1..Len(resps) : resps[k] = "error"

\* the latest answer was an empty series
LastEmpty == resps # <<>> /\ resps[Len(resps)] = "empty"

\* C9: download_one on a symbol whose every request raises makes exactly
\* max_retries requests, sleeps a backoff after each but the last, and
\* returns failed
C9_RetryBound ==
    (fetcher = "jp" /\ AllErrors) =>
        /\ f_pc = "returned" <=> Len(resps) = max_retries
        /\ f_pc = "returned" =>
             /\ ret = "failed"
             /\ log = <<"jitter", "request", "backoff",
                        "jitter", "request", "backoff",
                        "jitter", "request">>

\* download_one has returned after three requests that all raised
C9_Witness ==
    /\ fetcher = "jp" /\ f_pc = "returned"
    /\ resps = <<"error", "error", "error">>
    /\ ret = "failed"

\* C10 as claimed: once a request has answered with an empty series the
\* fetcher has returned empty, with no further request
C10_EmptyReturnsAtOnce == LastEmpty => (f_pc = "returned" /\ ret = "empty")

\* C10 amended: the fetcher returns empty only after the last attempt of
\* its loop (the third request of download_one, the second of TW's
\* download_stock_data); an empty answer on an earlier attempt is followed
\* by the next attempt, without a backoff sleep
C10_EmptyReturnsOnLastAttempt ==
    /\ (f_pc = "returned" /\ ret = "empty")
          => Len(resps) = attempts_of(fetcher)
    /\ LastEmpty =>
          IF Len(resps) = attempts_of(fetcher)
          THEN f_pc = "returned" /\ ret = "empty"
          ELSE /\ f_pc = "loop"
               /\ ret = "none"
               /\ attempt = Len(resps)
               /\ log[Len(log)] = "request"

\* download_one returned empty on its third request, the first having
\* answered with an empty series as well
C10_Witness ==
    /\ fetcher = "jp" /\ f_pc = "returned" /\ ret = "empty"
    /\ resps[1] = "empty" /\ Len(resps) = max_retries
\* C11 as claimed: a call whose every request raised has returned the
\* failure status, failed (JP) or error (TW, HK), never empty or success
C11_AllErrorsReportedFailed ==
    (AllErrors /\ f_pc = "returned") => ret \in {"failed", "error"}

\* C12: a TW or HK item without '&' makes download_stock_data return error
\* at once: no jitter sleep, no request, no write
C12_MalformedFailsFast ==
    (fetcher \in {"tw", "hk"} /\ item_parts < 2 /\ f_pc # "call") =>
        /\ f_pc = "returned"
        /\ ret = "error"
        /\ log = <<>>
        /\ resps = <<>>

\* TW's download_stock_data has returned on an item without '&'
C12_Witness ==
    /\ fetcher = "tw" /\ item_parts < 2
    /\ f_pc = "returned" /\ ret = "error" /\ log = <<>>

\* C22 as claimed: a TW or HK symbol whose artifact is older than the
\* freshness window is not skipped as already present: the call makes a
\* request, and the old file is still there at the return only if no request
\* was answered with data
C22_StaleRefetched ==
    (fetcher \in {"tw", "hk"} /\ item_parts = 2
        /\ f_file = "old_big" /\ f_pc = "returned") =>
        /\ ret # "exists"
        /\ resps # <<>>
        /\ \A k \in 1..Len(resps) : resps[k] # "data"
(* ---------------------------------------------------------------------- *)
(* The scheduling loops of the three main functions, by counts: the pool   *)
(* of worker threads and the as_completed loop that reads the results      *)
(* ---------------------------------------------------------------------- *)
\* number of items submitted at most
MaxItems == 5
\* HK line 169 and TW line 131 test a count % 100; the model's runs have a
\* handful of items, so the interval is scaled down to this many
PauseEvery == 2

\* downloader_hk.py: MAX_WORKERS = 4
MAX_WORKERS_HK == 4
\* downloader_tw.py: MAX_WORKERS = 3
MAX_WORKERS_TW == 3

\* max_workers of the market's ThreadPoolExecutor
max_workers(m) ==
    CASE m = "hk" -> MAX_WORKERS_HK
      [] m = "tw" -> MAX_WORKERS_TW
      [] OTHER -> THREADS

\* the statuses the market's fetcher returns (JP: done, empty, failed)
FetcherStatuses(m) ==
    IF m = "jp" THEN {"success", "empty", "error"} ELSE SchedStatuses

\* a pool that starts a thread for every submitted call
executor_takes_all(n, w) == TRUE

\* ThreadPoolExecutor(max_workers=w): a submitted call is taken only by one
\* of the w worker threads, each running one call at a time
executor_takes(n, w) == n < w

\* the sleep test after a result was counted: HK line 169 looks at the
\* successes so far, TW line 131 at the results so far, JP has no sleep
courtesy_pause(m, st, n) ==
    CASE m = "hk" -> st["success"] > 0 /\ st["success"] % PauseEvery = 0
      [] m = "tw" -> n % PauseEvery = 0
      [] OTHER -> FALSE

\* the number of futures in a by-status count
Total(c) == c["success"] + c["exists"] + c["empty"] + c["error"]

InitSched ==
    /\ PipelineIdle
    /\ ResolverIdle
    /\ FetcherIdle
    /\ UniverseIdle
    /\ s_market \in {"hk", "tw", "jp"}
    /\ s_pc = "start"
    /\ s_items \in 0..MaxItems
    /\ s_queue = 0
    /\ s_running = 0
    /\ s_finished = ZeroStats
    /\ stats = ZeroStats
    /\ pbar_n = 0
    /\ pauses = 0
    /\ report_stats = NoStats

\* HK lines 152-154, TW lines 115-116, JP lines 156 and 175: nothing to do
sched_no_items ==
    /\ s_pc = "start"
    /\ s_items = 0
    /\ s_pc' = "returned"
    /\ UNCHANGED <<s_market, s_items, s_queue, s_running, s_finished, stats,
                   pbar_n, pauses, report_stats>>
    /\ UNCHANGED <<pipeVars, resVars, fetchVars, uniVars>>

\* HK lines 157-161, TW lines 120-124, JP lines 158-161: every item is
\* submitted to the executor
sched_submit ==
    /\ s_pc = "start"
    /\ s_items > 0
    /\ s_queue' = s_items
    /\ s_pc' = "loop"
    /\ UNCHANGED <<s_market, s_items, s_running, s_finished, stats, pbar_n,
                   pauses, report_stats>>
    /\ UNCHANGED <<pipeVars, resVars, fetchVars, uniVars>>

\* a worker thread of the pool takes a submitted call
sched_worker_start ==
    /\ s_pc = "loop"
    /\ s_queue > 0
    /\ executor_takes(s_running, max_workers(s_market))
    /\ s_queue' = s_queue - 1
    /\ s_running' = s_running + 1
    /\ UNCHANGED <<s_market, s_pc, s_items, s_finished, stats, pbar_n, pauses,
                   report_stats>>
    /\ UNCHANGED <<pipeVars, resVars, fetchVars, uniVars>>

\* the fetcher returns a status
sched_worker_finish ==
    /\ s_running > 0
    /\ s_running' = s_running - 1
    /\ \E st \in FetcherStatuses(s_market) :
         s_finished' = [s_finished EXCEPT ![st] = @ + 1]
    /\ UNCHANGED <<s_market, s_pc, s_items, s_queue, stats, pbar_n, pauses,
                   report_stats>>
    /\ UNCHANGED <<pipeVars, resVars, fetchVars, uniVars>>

\* HK lines 163-170, TW lines 126-132, JP lines 163-169: one pass of the
\* as_completed loop; the result is counted, then the sleep test is made
sched_collect ==
    /\ s_pc = "loop"
    /\ \E st \in SchedStatuses :
         /\ s_finished[st] > 0
         /\ s_finished' = [s_finished EXCEPT ![st] = @ - 1]
         /\ stats' = [stats EXCEPT ![st] = @ + 1]
    /\ pbar_n' = pbar_n + 1
    /\ pauses' = IF courtesy_pause(s_market, stats', pbar_n')
                 THEN pauses + 1 ELSE pauses
    /\ UNCHANGED <<s_market, s_pc, s_items, s_queue, s_running, report_stats>>
    /\ UNCHANGED <<pipeVars, resVars, fetchVars, uniVars>>

\* TW lines 136-140
tw_report(n, st) ==
    [total |-> n,
     success |-> st["success"] + st["exists"],
     fail |-> st["error"] + st["empty"]]

\* every future was yielded: the loop and the with-block end, main returns
\* (TW lines 133-146 with the report, HK lines 172-174 with none; the report
\* of JP is part of Spec)
sched_loop_end ==
    /\ s_pc = "loop"
    /\ s_queue = 0 /\ s_running = 0 /\ Total(s_finished) = 0
    /\ report_stats' = IF s_market = "tw" THEN tw_report(s_items, stats)
                       ELSE NoStats
    /\ s_pc' = "returned"
    /\ UNCHANGED <<s_market, s_items, s_queue, s_running, s_finished, stats,
                   pbar_n, pauses>>
    /\ UNCHANGED <<pipeVars, resVars, fetchVars, uniVars>>

NextSched ==
    \/ sched_no_items
    \/ sched_submit
    \/ sched_worker_start
    \/ sched_worker_finish
    \/ sched_collect
    \/ sched_loop_end

SpecSched == InitSched /\ [][NextSched]_vars

(* ---------------------------------------------------------------------- *)
(* Claims about the scheduling loops (SpecSched)                           *)
(* ---------------------------------------------------------------------- *)
\* C13: at every moment at most max_workers calls of the fetcher are in
\* flight (4 in HK, 3 in TW, THREADS in JP), however many items were
\* submitted; every other item waits in the queue or has returned
C13_InFlightBounded ==
    /\ s_running <= max_workers(s_market)
    /\ s_pc = "loop" =>
         s_queue + s_running + Total(s_finished) + Total(stats) = s_items

\* the pool of HK is full, with four calls in flight, and an item waits
C13_Witness ==
    /\ s_market = "hk"
    /\ s_running = MAX_WORKERS_HK
    /\ s_queue > 0

\* C17 as claimed: main has slept once for each time the successes reached
\* a multiple of PauseEvery, and at no other result
C17_PauseOnEveryNthSuccess == pauses = stats["success"] \div PauseEvery
(* ---------------------------------------------------------------------- *)
(* The row filters of the list parsers: get_full_stock_list (HK) lines     *)
(* 88-96, get_tse_list (JP) lines 57-67 and get_full_stock_list (TW) lines *)
(* 46-71, and the symbol HK fetches an item under (lines 124-126).  A name *)
(* is the sequence of its characters, a code the sequence of its digits.   *)
(* ---------------------------------------------------------------------- *)
\* number of rows of the published list at most
MaxRows == 3

LowerCase == <<"a", "b", "c", "d", "e", "f", "g", "h", "i", "j", "k", "l", "m", "n", "o", "p", "q", "r", "s", "t", "u", "v", "w", "x", "y", "z">>
UpperCase == <<"A", "B", "C", "D", "E", "F", "G", "H", "I", "J", "K", "L", "M", "N", "O", "P", "Q", "R", "S", "T", "U", "V", "W", "X", "Y", "Z">>

\* str.upper() on one character
upper(c) ==
    IF \E k \in 1..Len(LowerCase) : LowerCase[k] = c
    THEN UpperCase[CHOOSE k \in 1..Len(LowerCase) : LowerCase[k] = c]
    ELSE c

\* str(name).upper()
to_upper(name) == [k \in 1..Len(name) |-> upper(name[k])]

\* kw in n
contains(n, kw) ==
    \E k \in 1..(Len(n) - Len(kw) + 1) : SubSeq(n, k, k + Len(kw) - 1) = kw

\* HK line 40; the six Chinese characters of the last three keywords are
\* written by their code points
bad_kw == {
    <<"C", "B", "B", "C">>,
    <<"W", "A", "R", "R", "A", "N", "T">>,
    <<"R", "I", "G", "H", "T", "S">>,
    <<"E", "T", "F">>,
    <<"E", "T", "N">>,
    <<"R", "E", "I", "T">>,
    <<"B", "O", "N", "D">>,
    <<"T", "R", "U", "S", "T">>,
    <<"F", "U", "N", "D">>,
    <<"U+725B", "U+718A">>, <<"U+6B0A", "U+8B49">>, <<"U+8F2A", "U+8B49">> }

\* HK lines 37-43
classify_security(name) ==
    IF \E kw \in bad_kw : contains(to_upper(name), kw)
    THEN "Exclude" ELSE "Common Stock"

\* HK lines 27-30, on a code that is all digits: the last five digits,
\* padded to five
normalize_code5(digits) ==
    IF digits = <<>> THEN <<>>
    ELSE zfill(SubSeq(digits, IF Len(digits) > 5 THEN Len(digits) - 4 ELSE 1,
                      Len(digits)), 5)

\* the names a published list is seen to carry
Names == {
    <<"A", "l", "p", "h", "a">>,
    <<"A", "l", "p", "h", "a", " ", "H">>,
    <<"B", "e", "t", "a", "(", "W", "A", "R", "R", "A", "N", "T", ")">>,
    <<"G", "a", "m", "m", "a", " ", "e", "t", "f">> }

\* the code cells a published list is seen to carry: 0001, 0002, the bare
\* number 1 and the five-digit 80001
Codes == {<<0, 0, 0, 1>>, <<0, 0, 0, 2>>, <<1>>, <<8, 0, 0, 0, 1>>}

\* the rows a published list is seen to carry
PublishedRows == [code : Codes, name : Names]

\* the list [0001&Alpha, 0002&Beta(WARRANT)]
ScenarioRows ==
    << [code |-> <<0, 0, 0, 1>>, name |-> <<"A", "l", "p", "h", "a">>],
       [code |-> <<0, 0, 0, 2>>, name |-> <<"B", "e", "t", "a", "(", "W", "A", "R", "R", "A", "N", "T", ")">>] >>

\* HK lines 89-94: the rows classified Common Stock, as code5 and name
hk_keep(rows) ==
    LET kept == SelectSeq(rows, LAMBDA r :
                    /\ classify_security(r.name) = "Common Stock"
                    /\ normalize_code5(r.code) # <<>>)
    IN  [k \in 1..Len(kept) |-> [code |-> normalize_code5(kept[k].code),
                                 name |-> kept[k].name]]

\* JP lines 57-65: every row whose code starts with four digits, as
\* code[:4] and name; the name is not looked at
jp_keep(rows) ==
    LET kept == SelectSeq(rows, LAMBDA r : Len(r.code) >= 4)
    IN  [k \in 1..Len(kept) |-> [code |-> SubSeq(kept[k].code, 1, 4),
                                 name |-> kept[k].name]]

\* JP line 67: drop_duplicates(subset=['code']) keeps the first row of a code
drop_duplicates(rows) ==
    LET first(k) == \A j \in 1..(k - 1) : rows[j].code # rows[k].code
        idx == { k \in 1..Len(rows) : first(k) }
    IN  [n \in 1..Cardinality(idx) |->
            rows[CHOOSE k \in idx : Cardinality({ j \in idx : j <= k }) = n]]

\* TW lines 46-50: every row with a code, as code and name
tw_keep(rows) ==
    SelectSeq(rows, LAMBDA r : r.code # <<>>)

\* HK line 96, TW line 71: list(set(res)), the distinct "code&name" strings
\* in any of the orders the set can be read in
list_of_set(rows) ==
    LET S == Range(rows)
    IN  { f \in [1..Cardinality(S) -> S] :
            \A i, j \in 1..Cardinality(S) : f[i] = f[j] => i = j }

\* HK lines 32-35: the last four digits of the code, filled to four
to_symbol_yf(code) ==
    zfill(SubSeq(code, (IF Len(code) > 4 THEN Len(code) - 3 ELSE 1),
                 Len(code)), 4)

InitUniverse ==
    /\ PipelineIdle
    /\ ResolverIdle
    /\ FetcherIdle
    /\ SchedulerIdle
    /\ u_market \in {"hk", "jp", "tw"}
    /\ u_pc = "parse"
    /\ \E n \in 0..MaxRows : u_rows \in [1..n -> PublishedRows]
    /\ u_out = <<>>
    /\ u_syms = <<>>

\* HK lines 88-96
hk_parse_rows ==
    /\ u_market = "hk"
    /\ u_pc = "parse"
    /\ u_out' \in list_of_set(hk_keep(u_rows))
    /\ u_pc' = "parsed"
    /\ UNCHANGED <<u_market, u_rows, u_syms>>
    /\ UNCHANGED <<pipeVars, resVars, fetchVars, schedVars>>

\* JP lines 57-67
jp_parse_rows ==
    /\ u_market = "jp"
    /\ u_pc = "parse"
    /\ u_out' = drop_duplicates(jp_keep(u_rows))
    /\ u_pc' = "parsed"
    /\ UNCHANGED <<u_market, u_rows, u_syms>>
    /\ UNCHANGED <<pipeVars, resVars, fetchVars, schedVars>>

\* TW lines 46-50 and 71
tw_parse_rows ==
    /\ u_market = "tw"
    /\ u_pc = "parse"
    /\ u_out' \in list_of_set(tw_keep(u_rows))
    /\ u_pc' = "parsed"
    /\ UNCHANGED <<u_market, u_rows, u_syms>>
    /\ UNCHANGED <<pipeVars, resVars, fetchVars, schedVars>>

\* HK lines 124-126, for each item of the list in turn
hk_to_symbols ==
    /\ u_market = "hk"
    /\ u_pc = "parsed"
    /\ u_syms' = [k \in 1..Len(u_out) |-> to_symbol_yf(u_out[k].code)]
    /\ u_pc' = "symbols"
    /\ UNCHANGED <<u_market, u_rows, u_out>>
    /\ UNCHANGED <<pipeVars, resVars, fetchVars, schedVars>>

NextUniverse ==
    \/ hk_parse_rows
    \/ jp_parse_rows
    \/ tw_parse_rows
    \/ hk_to_symbols

SpecUniverse == InitUniverse /\ [][NextUniverse]_vars

(* ---------------------------------------------------------------------- *)
(* Claims about the list parsers (SpecUniverse)                            *)
(* ---------------------------------------------------------------------- *)
\* C20 as claimed: every row the parser keeps, for the manifest (JP) or for
\* the item list (HK), has a name that holds no exclusion keyword; of the
\* list [0001&Alpha, 0002&Beta(WARRANT)] the one row 0001 is kept
C20_OnlyCommonKept ==
    (u_market \in {"hk", "jp"} /\ u_pc = "parsed") =>
        /\ \A k \in 1..Len(u_out) :
             classify_security(u_out[k].name) = "Common Stock"
        /\ u_rows = ScenarioRows =>
             /\ Len(u_out) = 1
             /\ DigitsToInt(u_out[1].code) = 1

\* C21 as claimed: the list the resolver returns holds at most one entry for
\* a normalized code, whatever rows the source carries, so that no two
\* scheduled fetches write the same artifact file
C21_OneEntryPerCode ==
    u_pc = "parsed" =>
        \A i, j \in 1..Len(u_out) :
            u_out[i].code = u_out[j].code => i = j

\* C24 as claimed: in the HK downloader two items with different five-digit
\* codes are fetched under different symbols
C24_SymbolsDistinct ==
    (u_market = "hk" /\ u_pc = "symbols") =>
        \A i, j \in 1..Len(u_out) :
            u_out[i].code # u_out[j].code => u_syms[i] # u_syms[j]
====
